---- MODULE Spec2Model ----
(***************************************************************************)
(* Container lifecycle orchestration of mine-prospector: MCService.create  *)
(* and the MCContainerService methods (status, start, stop, run_command,   *)
(* logs, rm), each driving the Docker engine through Runtime::block_on.    *)
(*                                                                         *)
(* Text is modelled as a sequence of code points (integers), raw log and   *)
(* path data as a sequence of bytes, so that formatting and decoding are   *)
(* computed and not assumed.  Fixed literals that the code never takes     *)
(* apart ("tcp", "EULA=TRUE", the image name) are TLA+ strings.            *)
(***************************************************************************)
EXTENDS Integers, Sequences, FiniteSets, TLC

\* ------------------------------------------------------------------ bounds
\* Containers the engine will create in one run.
MaxContainers == 1
\* Log lines the containers hold between them at any time of a run.
MaxLines == 2

\* ------------------------------------------------------- program constants
\* const DEFAULT_MC_PORT: u32 = 25565
DEFAULT_MC_PORT == 25565
\* The host ports tried: the default and one other, to tell the two sides of
\* the port mapping apart.
Ports == {DEFAULT_MC_PORT, DEFAULT_MC_PORT + 1}

\* '\n' and U+FFFD, the character from_utf8_lossy substitutes.
NL == 10
REPLACEMENT_CHARACTER == 65533

\* "/op " , ":/data", "20", "Alice", "/d" and a path that is not UTF-8.
OpPrefix == <<47, 111, 112, 32>>
DataSuffix == <<58, 47, 100, 97, 116, 97>>
DefaultLimit == <<50, 48>>
Alice == <<65, 108, 105, 99, 101>>
GoodPath == <<47, 100>>
BadPath == <<47, 255>>
PortConflict == <<112, 111, 114, 116>>

\* The literals of MCError::to_string, in the order of its arms, with " on
\* container " of the run-command arm; "success"; the volume path the server
\* creates with.
FailedToCreateText ==
    <<102, 97, 105, 108, 101, 100, 32, 116, 111, 32, 99, 114, 101, 97, 116,
    101, 32, 99, 111, 110, 116, 97, 105, 110, 101, 114>>
FailedToStartText ==
    <<102, 97, 105, 108, 101, 100, 32, 116, 111, 32, 115, 116, 97, 114, 116,
    32, 99, 111, 110, 116, 97, 105, 110, 101, 114, 32>>
FailedToInspectText ==
    <<102, 97, 105, 108, 101, 100, 32, 116, 111, 32, 105, 110, 115, 112, 101,
    99, 116, 32, 99, 111, 110, 116, 97, 105, 110, 101, 114, 32>>
FailedToStopText ==
    <<102, 97, 105, 108, 101, 100, 32, 116, 111, 32, 115, 116, 111, 112, 32,
    99, 111, 110, 116, 97, 105, 110, 101, 114, 32>>
FailedToRunText ==
    <<102, 97, 105, 108, 101, 100, 32, 116, 111, 32, 114, 117, 110, 32, 99,
    111, 109, 109, 97, 110, 100, 32>>
OnContainerText ==
    <<32, 111, 110, 32, 99, 111, 110, 116, 97, 105, 110, 101, 114, 32>>
FailedToRMText ==
    <<102, 97, 105, 108, 101, 100, 32, 116, 111, 32, 114, 109, 32, 99, 111,
    110, 116, 97, 105, 110, 101, 114, 32>>
SuccessText == <<115, 117, 99, 99, 101, 115, 115>>
ServerVolume ==
    <<47, 85, 115, 101, 114, 115, 47, 107, 114, 105, 115, 116, 111, 110, 99,
    111, 115, 116, 97, 47, 119, 111, 114, 107, 115, 112, 97, 99, 101, 47,
    116, 109, 112, 45, 109, 99>>

None == <<-1>>

\* -------------------------------------------------------------- text
\* Path::to_str: Some(text) iff the bytes are valid UTF-8.  Over the byte
\* alphabet used here (ASCII and the lone byte 0xFF) a path is valid iff it
\* holds no 0xFF.
to_str(path) ==
    IF \A i \in 1..Len(path) : path[i] < 128 THEN path ELSE None

\* Chunk::as_string_lossy (String::from_utf8_lossy): every malformed byte is
\* replaced by U+FFFD, well-formed ones are kept.
as_string_lossy(chunk) ==
    [i \in 1..Len(chunk) |->
        IF chunk[i] < 128 THEN chunk[i] ELSE REPLACEMENT_CHARACTER]

\* The decimal number a string of digits denotes (the engine's reading of the
\* "tail" parameter).
RECURSIVE ParseNat(_)
ParseNat(s) ==
    IF s = <<>> THEN 0
    ELSE 10 * ParseNat(SubSeq(s, 1, Len(s) - 1)) + (s[Len(s)] - 48)

\* ------------------------------------------------------------ commands
\* enum MCServerCommands { OP(String) }
OP(name) == [variant |-> "OP", name |-> name]
NoCommand == [variant |-> "", name |-> <<>>]

\* Mutant of CommandToString: the terminating newline is left out.
CommandToString_NoNewline(c) == OpPrefix \o c.name

\* impl ToString for MCServerCommands: format!("/op {}\n", name)
CommandToString(c) == OpPrefix \o c.name \o <<NL>>

\* --------------------------------------------------------- provisioning
\* MCServerOptionsBuilder::new / port / build
BuilderNew(name, volume) ==
    [name |-> name, volume |-> volume, port |-> DEFAULT_MC_PORT]
\* Mutant of MCServerOptionsBuilder::port: the port given is dropped.
BuilderPort_Ignored(b, port) == b

BuilderPort(b, port) == [b EXCEPT !.port = port]
BuilderBuild(b) == [volume |-> b.volume, port |-> b.port, name |-> b.name]

\* impl Default for MCServerLogOptions
LogOptionsDefault == [limit |-> DefaultLimit]

\* Mutant of get_container: the handle is built without the id given.
get_container_Blank(id) == [id |-> <<>>]

\* MCService::get_container
get_container(id) == [id |-> id]

\* --------------------------------------------------------------- results
\* Result<_, MCError> as seen by the caller, plus the third outcome the
\* caller can observe: the call unwinds (panic) and returns nothing.
Unit == [tag |-> "Ok", err |-> "", id |-> <<>>, msg |-> <<>>,
         cmd |-> NoCommand, lines |-> <<>>]
OkUnit == Unit
OkContainer(c) == [Unit EXCEPT !.id = c.id]
OkLines(ls) == [Unit EXCEPT !.lines = ls]
Panic(what) == [Unit EXCEPT !.tag = "Panic", !.err = what]
Err(kind, id) == [Unit EXCEPT !.tag = "Err", !.err = kind, !.id = id]

\* enum MCError
FailedToCreateContainer == Err("FailedToCreateContainer", <<>>)
FailedToStartContainer(id) == Err("FailedToStartContainer", id)
FailedToInspectContainer(id) == Err("FailedToInspectContainer", id)
FailedToStopContainer(id) == Err("FailedToStopContainer", id)
FailedToRunCommand(id, c) == [Err("FailedToRunCommand", id) EXCEPT !.cmd = c]
FailedToRMContainer(id) == Err("FailedToRMContainer", id)
ContainerError(id, m) == [Err("ContainerError", id) EXCEPT !.msg = m]

\* The Debug rendering of a string: quoted, with '"', '\' and '\n' escaped.
RECURSIVE Escaped(_)
Escaped(s) ==
    IF s = <<>> THEN <<>>
    ELSE (IF s[1] = NL THEN <<92, 110>>
          ELSE IF s[1] \in {34, 92} THEN <<92, s[1]>>
          ELSE <<s[1]>>) \o Escaped(Tail(s))
\* #[derive(Debug)] of MCServerCommands: OP("name")
CommandDebug(c) == <<79, 80, 40, 34>> \o Escaped(c.name) \o <<34, 41>>

\* impl ToString for MCError
to_string(e) ==
    CASE e.err = "FailedToCreateContainer" -> FailedToCreateText
      [] e.err = "FailedToStartContainer" -> FailedToStartText \o e.id
      [] e.err = "FailedToInspectContainer" -> FailedToInspectText \o e.id
      [] e.err = "FailedToStopContainer" -> FailedToStopText \o e.id
      [] e.err = "FailedToRunCommand" ->
            FailedToRunText \o CommandDebug(e.cmd) \o OnContainerText \o e.id
      [] e.err = "FailedToRMContainer" -> FailedToRMText \o e.id
      [] e.err = "ContainerError" -> e.msg

\* ---------------------------------------------------------------- engine
\* The remote engine is an external collaborator.  It is modelled by what the
\* service can observe of it: per container a lifecycle status, the error
\* string of its inspected state and the log lines it has emitted.  Every call
\* may also fail for a reason of the engine's own (a 500 fault, a transport
\* error).

\* Engine-assigned ids: "c1", "c2", ...
IdOf(i) == <<99, 48 + i>>
ContainerIds == {IdOf(i) : i \in 1..MaxContainers}
\* Ids a caller may present: any id the engine may assign, whether it has
\* assigned it yet or not.
HandleIds == ContainerIds

\* shiplift::Error as far as the code distinguishes it: Error::Fault{code,..}
\* and every other variant (transport, IO, decoding).
NoError == [kind |-> "", code |-> 0]
Fault(code) == [kind |-> "Fault", code |-> code]
Transport == [kind |-> "Hyper", code |-> 0]
\* What the environment may choose for a call: answer as the state dictates,
\* or fail on its own.
EngineFaults == {NoError, Fault(500), Transport}
\* One more answer an engine may give to a start call: it takes the start of a
\* container that already runs as done instead of rejecting it.
Idempotent == [kind |-> "Idempotent", code |-> 204]
StartAnswers == EngineFaults \cup {Idempotent}

\* StatusCode::is_client_error / is_server_error
is_client_error(code) == code >= 400 /\ code <= 499
is_server_error(code) == code >= 500 /\ code <= 599

NewContainer == [status |-> "absent", error |-> <<>>, lines |-> <<>>]
StatusOf(cs, id) == IF id \in DOMAIN cs THEN cs[id].status ELSE "absent"
Exists(cs, id) == StatusOf(cs, id) \in {"created", "running", "stopped"}

Resp == [ok |-> TRUE, error |-> NoError, id |-> <<>>, state_error |-> <<>>,
         lines |-> <<>>]
Failed(e) == [Resp EXCEPT !.ok = FALSE, !.error = e]

\* The last k elements of s (all of s when it is shorter).
Tail_(s, k) == IF Len(s) <= k THEN s ELSE SubSeq(s, Len(s) - k + 1, Len(s))

\* create(options) -> {id, warnings}
EngineCreate(cs, next, f) ==
    IF f # NoError THEN [resp |-> Failed(f), cs |-> cs]
    ELSE [resp |-> [Resp EXCEPT !.id = IdOf(next)],
          cs |-> [cs EXCEPT ![IdOf(next)].status = "created"]]

\* start(id) -> (): 404 for an unknown or removed id; for a container that
\* already runs 304 ("already started"), or nothing done and success when the
\* engine answers Idempotent.  An accepted start may still leave the container
\* faulted: e is the error the engine records in its state (empty: none).
EngineStart(cs, id, f, e) ==
    IF f \notin {NoError, Idempotent} THEN [resp |-> Failed(f), cs |-> cs]
    ELSE IF ~Exists(cs, id) THEN [resp |-> Failed(Fault(404)), cs |-> cs]
    ELSE IF cs[id].status = "running"
         THEN IF f = Idempotent THEN [resp |-> Resp, cs |-> cs]
              ELSE [resp |-> Failed(Fault(304)), cs |-> cs]
    ELSE [resp |-> Resp,
          cs |-> [cs EXCEPT ![id].status =
                                IF e = <<>> THEN "running" ELSE "stopped",
                            ![id].error = e]]

\* inspect(id) -> {state: {error}}
EngineInspect(cs, id, f) ==
    IF f # NoError THEN Failed(f)
    ELSE IF ~Exists(cs, id) THEN Failed(Fault(404))
    ELSE [Resp EXCEPT !.state_error = cs[id].error]

\* stop(id, timeout?) -> (): 304 when the container does not run.
EngineStop(cs, id, f) ==
    IF f # NoError THEN [resp |-> Failed(f), cs |-> cs]
    ELSE IF ~Exists(cs, id) THEN [resp |-> Failed(Fault(404)), cs |-> cs]
    ELSE IF cs[id].status # "running"
         THEN [resp |-> Failed(Fault(304)), cs |-> cs]
    ELSE [resp |-> Resp, cs |-> [cs EXCEPT ![id].status = "stopped"]]

\* attach(id) -> writable stream
EngineAttach(cs, id, f) ==
    IF f # NoError THEN Failed(f)
    ELSE IF ~Exists(cs, id) THEN Failed(Fault(404))
    ELSE Resp

\* One write_all or flush on the attached stream: it succeeds or fails with an
\* IO error.
StreamIo(ok) == IF ok THEN Resp ELSE Failed(Transport)

\* logs(id, {stdout, stderr, tail}) -> the last `tail` emitted lines
EngineLogs(cs, id, tail, f) ==
    IF f # NoError THEN Failed(f)
    ELSE IF ~Exists(cs, id) THEN Failed(Fault(404))
    ELSE [Resp EXCEPT !.lines = Tail_(cs[id].lines, ParseNat(tail))]

\* remove(id, {force}) -> (): the engine keeps nothing of a removed container
\* but the fact that its id is gone.
EngineRemove(cs, id, force, f) ==
    IF f # NoError THEN [resp |-> Failed(f), cs |-> cs]
    ELSE IF ~Exists(cs, id) THEN [resp |-> Failed(Fault(404)), cs |-> cs]
    ELSE IF cs[id].status = "running" /\ ~force
         THEN [resp |-> Failed(Fault(409)), cs |-> cs]
    ELSE [resp |-> Resp,
          cs |-> [cs EXCEPT ![id] = [NewContainer EXCEPT !.status = "removed"]]]

\* --------------------------------------------------------------- service
\* One engine call as the service issued it: the call, the id it names, its
\* arguments and the engine's answer.
NoArgs == [image |-> "", env |-> <<>>, volumes |-> <<>>,
           attach_stdin |-> FALSE, container_port |-> 0, protocol |-> "",
           host_port |-> 0, stdout |-> FALSE, stderr |-> FALSE,
           tail |-> <<>>, force |-> FALSE, bytes |-> <<>>]
Call(name, id, args, resp) ==
    [call |-> name, id |-> id, args |-> args, resp |-> resp]

\* One record written by info!/warn!/error! (channel "log") or by eprintln!
\* (channel "stderr"), with the engine error it renders, if any.
LogRec(channel, level, what, e) ==
    [channel |-> channel, level |-> level, what |-> what, error |-> e]

\* What a handler hands back: the caller's result, the engine calls it made in
\* order, the records it logged and the engine's containers afterwards.
Outcome(ret, calls, logged, cs) ==
    [ret |-> ret, calls |-> calls, logged |-> logged, cs |-> cs]

\* ContainerOptionsBuilder::expose(srcport, protocol, hostport) of the engine
\* client: binds container port `srcport/protocol` to host port `hostport`.
expose(args, srcport, protocol, hostport) ==
    [args EXCEPT !.container_port = srcport, !.protocol = protocol,
                 !.host_port = hostport]

\* MCService::create, the options payload
ContainerOptions(image, volume_path, options) ==
    expose([NoArgs EXCEPT !.image = image,
                          !.env = <<"EULA=TRUE">>,
                          !.volumes = <<volume_path \o DataSuffix>>,
                          !.attach_stdin = TRUE],
           options.port, "tcp", DEFAULT_MC_PORT)

\* MCService::create.  f is the engine's failure for the create call (NoError:
\* none), warnings the warnings of its answer.
create(cs, next, options, f, warnings) ==
    LET volume_path == to_str(options.volume) IN
    IF volume_path = None
    THEN Outcome(Panic("unable to load path"), <<>>, <<>>, cs)
    ELSE
    LET payload == ContainerOptions("itzg/minecraft-server", volume_path,
                                    options)
        r == EngineCreate(cs, next, f)
        calls == <<Call("create", <<>>, payload, r.resp)>>
    IN IF ~r.resp.ok
       THEN Outcome(FailedToCreateContainer, calls,
                    <<LogRec("stderr", "error", "Error", r.resp.error)>>, cs)
       ELSE Outcome(OkContainer(get_container(r.resp.id)), calls,
                    [i \in 1..Len(warnings) |->
                        LogRec("log", "warn", warnings[i], NoError)],
                    r.cs)

\* Mutant of status: the container is inspected and its absence reported.
status_Inspecting(cs, container) ==
    LET r == EngineInspect(cs, container.id, NoError)
        calls == <<Call("inspect", container.id, NoArgs, r)>>
    IN IF ~r.ok
       THEN Outcome(FailedToInspectContainer(container.id), calls, <<>>, cs)
       ELSE Outcome(OkUnit, calls, <<>>, cs)

\* MCContainerService::status
status(cs, container) == Outcome(OkUnit, <<>>, <<>>, cs)

\* MCContainerService::start, the error! calls of the start call's map_err
StartErrorLog(e) ==
    IF e.kind = "Fault"
    THEN IF is_client_error(e.code) \/ is_server_error(e.code)
         THEN <<LogRec("log", "error", "start", e)>>
         ELSE <<>>
    ELSE <<LogRec("log", "error", "start", e)>>

\* Mutant of StartVerify: the inspected state is read and not looked at.
StartVerify_Ignored(container_id, state_error) == OkUnit

\* MCContainerService::start, the check of the inspected state
StartVerify(container_id, state_error) ==
    IF state_error # <<>>
    THEN ContainerError(container_id, state_error)
    ELSE OkUnit

\* Mutant of start: success as soon as the engine accepts the start call, the
\* state never read back.
start_Unverified(cs, container, f1, e, f2) ==
    LET r1 == EngineStart(cs, container.id, f1, e)
        c1 == <<Call("start", container.id, NoArgs, r1.resp)>>
    IN IF ~r1.resp.ok
       THEN Outcome(FailedToStartContainer(container.id), c1, <<>>, r1.cs)
       ELSE Outcome(OkUnit, c1, <<>>, r1.cs)

\* Mutant of start: the start call's result is unwrapped, not mapped.
start_Unwrapped(cs, container, f1, e, f2) ==
    LET r1 == EngineStart(cs, container.id, f1, e)
        c1 == <<Call("start", container.id, NoArgs, r1.resp)>>
    IN IF ~r1.resp.ok
       THEN Outcome(Panic("failed to start"), c1, <<>>, r1.cs)
       ELSE LET r2 == EngineInspect(r1.cs, container.id, f2)
                c2 == c1 \o <<Call("inspect", container.id, NoArgs, r2)>>
            IN IF ~r2.ok
               THEN Outcome(FailedToInspectContainer(container.id), c2, <<>>,
                            r1.cs)
               ELSE Outcome(StartVerify(container.id, r2.state_error), c2,
                            <<>>, r1.cs)

\* Mutant of start: the start and the inspect call are issued together, the
\* inspect call reading the state the start call has not yet changed.
start_Racing(cs, container, f1, e, f2) ==
    LET r1 == EngineStart(cs, container.id, f1, e)
        r2 == EngineInspect(cs, container.id, f2)
        c2 == <<Call("start", container.id, NoArgs, r1.resp),
                Call("inspect", container.id, NoArgs, r2)>>
    IN IF ~r1.resp.ok
       THEN Outcome(FailedToStartContainer(container.id), c2, <<>>, r1.cs)
       ELSE IF ~r2.ok
       THEN Outcome(FailedToInspectContainer(container.id), c2, <<>>, r1.cs)
       ELSE Outcome(StartVerify(container.id, r2.state_error), c2, <<>>,
                    r1.cs)

\* Mutant of start: a start that the engine accepted and that then fails is
\* rolled back by removing the container.
start_RollingBack(cs, container, f1, e, f2) ==
    LET r1 == EngineStart(cs, container.id, f1, e)
        c1 == <<Call("start", container.id, NoArgs, r1.resp)>>
    IN IF ~r1.resp.ok
       THEN Outcome(FailedToStartContainer(container.id), c1, <<>>, r1.cs)
       ELSE
       LET r2 == EngineInspect(r1.cs, container.id, f2)
           c2 == c1 \o <<Call("inspect", container.id, NoArgs, r2)>>
           r3 == EngineRemove(r1.cs, container.id, TRUE, NoError)
           c3 == c2 \o <<Call("remove", container.id,
                              [NoArgs EXCEPT !.force = TRUE], r3.resp)>>
       IN IF ~r2.ok
          THEN Outcome(FailedToInspectContainer(container.id), c3, <<>>,
                       r3.cs)
          ELSE IF r2.state_error # <<>>
          THEN Outcome(ContainerError(container.id, r2.state_error), c3,
                       <<>>, r3.cs)
          ELSE Outcome(OkUnit, c2, <<>>, r1.cs)

\* MCContainerService::start.  f1, f2: the engine's failures for the start and
\* the inspect call; e: the error the engine records when it accepts the start.
start(cs, container, f1, e, f2) ==
    LET container_id == container.id
        info == <<LogRec("log", "info", "Starting container", NoError)>>
        r1 == EngineStart(cs, container_id, f1, e)
        c1 == <<Call("start", container_id, NoArgs, r1.resp)>>
    IN IF ~r1.resp.ok
       THEN Outcome(FailedToStartContainer(container_id), c1,
                    info \o StartErrorLog(r1.resp.error), r1.cs)
       ELSE
       LET r2 == EngineInspect(r1.cs, container_id, f2)
           c2 == c1 \o <<Call("inspect", container_id, NoArgs, r2)>>
       IN IF ~r2.ok
          THEN Outcome(FailedToInspectContainer(container_id), c2, info, r1.cs)
          ELSE Outcome(StartVerify(container_id, r2.state_error), c2,
                       IF r2.state_error # <<>>
                       THEN info \o <<LogRec("log", "error", "Error", NoError)>>
                       ELSE info,
                       r1.cs)

\* MCContainerService::stop
stop(cs, container, f) ==
    LET container_id == container.id
        info == <<LogRec("log", "info", "Stopping container", NoError)>>
        r == EngineStop(cs, container_id, f)
        calls == <<Call("stop", container_id, NoArgs, r.resp)>>
    IN IF ~r.resp.ok
       THEN Outcome(FailedToStopContainer(container_id), calls, info, r.cs)
       ELSE Outcome(OkUnit, calls, info, r.cs)

\* MCContainerService::run_command, the closure run on the attached stream:
\* the results of write_all and flush are dropped, the closure yields ().
WriteCommand(container_id, command, wrote, flushed) == OkUnit

\* MCContainerService::run_command.  f: the engine's failure for the attach
\* call; wrote, flushed: whether write_all and flush on the stream succeed.
run_command(cs, container, command, f, wrote, flushed) ==
    LET container_id == container.id
        command_for_error == command
        info == <<LogRec("log", "info", "Running command", NoError)>>
        r == EngineAttach(cs, container_id, f)
        c1 == <<Call("attach", container_id, NoArgs, r)>>
    IN IF ~r.ok
       THEN Outcome(FailedToRunCommand(container_id, command_for_error), c1,
                    info, cs)
       ELSE
       LET bytes == CommandToString(command)
           io(name, ok) ==
               Call(name, container_id, [NoArgs EXCEPT !.bytes = bytes],
                    StreamIo(ok))
       IN Outcome(WriteCommand(container_id, command, wrote, flushed),
                  c1 \o <<io("write_all", wrote), io("flush", flushed)>>,
                  info, cs)

\* Mutant of DecodeLines: the chunks are decoded newest first.
DecodeLines_Reversed(logs) ==
    [i \in 1..Len(logs) |-> as_string_lossy(logs[Len(logs) + 1 - i])]

\* MCContainerService::logs, the decoding of the collected chunks
DecodeLines(logs) == [i \in 1..Len(logs) |-> as_string_lossy(logs[i])]

\* MCContainerService::logs
logs(cs, container, options, f) ==
    LET info == <<LogRec("log", "info", "Logging container", NoError)>>
        args == [NoArgs EXCEPT !.stderr = TRUE, !.stdout = TRUE,
                               !.tail = options.limit]
        r == EngineLogs(cs, container.id, options.limit, f)
        calls == <<Call("logs", container.id, args, r)>>
    IN IF ~r.ok
       THEN Outcome(Panic(""), calls,
                    info \o <<LogRec("log", "error", "Error", r.error)>>, cs)
       ELSE Outcome(OkLines(DecodeLines(r.lines)), calls, info, cs)

\* Mutant of rm: the failure is mapped to the member of stop.
rm_StopError(cs, container, f) ==
    LET r == EngineRemove(cs, container.id, TRUE, f)
        calls == <<Call("remove", container.id, [NoArgs EXCEPT !.force = TRUE],
                        r.resp)>>
    IN IF ~r.resp.ok
       THEN Outcome(FailedToStopContainer(container.id), calls, <<>>, r.cs)
       ELSE Outcome(OkUnit, calls, <<>>, r.cs)

\* MCContainerService::rm
rm(cs, container, f) ==
    LET container_id == container.id
        info == <<LogRec("log", "info", "Removing container", NoError)>>
        options == [NoArgs EXCEPT !.force = TRUE]
        r == EngineRemove(cs, container_id, options.force, f)
        calls == <<Call("remove", container_id, options, r.resp)>>
    IN IF ~r.resp.ok
       THEN Outcome(FailedToRMContainer(container_id), calls, info, r.cs)
       ELSE Outcome(OkUnit, calls, info, r.cs)

\* ------------------------------------------------------------------ state
VARIABLES
    containers,   \* the engine's containers, by id
    nextId,       \* the number of the next id the engine assigns
    op,           \* the lifecycle call made last and its arguments
    pre,          \* op's container in the engine when the call was made:
                  \* its status and the lines it had emitted
    ret,          \* what that call gave its caller
    calls,        \* the engine calls it issued, in order
    logged,       \* the records it logged
    e2e,          \* progress of the end-to-end scenario (observer only)
    builder,      \* an MCServerOptionsBuilder in use and the calls made on it
    request,      \* the HTTP request the server handled last
    response,     \* the response it gave
    store,        \* what Connection::open("default.db") did last
    handlers,     \* the server's handler threads
    made,         \* the number of requests services were constructed for
    inflight,     \* the engine calls submitted and not yet settled
    uses          \* which service instance submitted calls for which request

\* The handler threads and what they share but the engine.
pool == <<handlers, made, inflight, uses>>
vars == <<containers, nextId, op, pre, ret, calls, logged, e2e,
          builder, request, response, store, pool>>
\* What a call made on the services directly leaves alone.
others == <<builder, request, response, store, pool>>
\* What the use of a builder leaves alone.
service == <<containers, nextId, op, pre, ret, calls, logged, e2e,
             request, response, store, pool>>

\* The inputs tried.
Names == {"test"}
Volumes == {GoodPath, BadPath}
Builders ==
    LET fresh == {BuilderNew(n, v) : n \in Names, v \in Volumes}
    IN fresh \cup {BuilderPort(b, p) : b \in fresh, p \in Ports}
ProvisioningSpecs == {BuilderBuild(b) : b \in Builders}
WarningLists == {<<>>, <<"warning">>}
StateErrors == {<<>>, PortConflict}
\* "Alice" and "a\nb".
Usernames == {Alice, <<97, NL, 98>>}
Commands == {OP(u) : u \in Usernames}
\* "a" and a line that is no UTF-8.
LogLines == {<<97>>, <<255>>}

NoOp == [name |-> "none", id |-> <<>>, command |-> NoCommand,
         port |-> 0, volume |-> <<>>, limit |-> <<>>]

\* The end-to-end scenario: create, then on the created handle start,
\* run_command(OP("Alice")), logs, stop, rm, each answered by the engine without
\* a failure.  e2e.step counts the steps made so far in that order on e2e.id;
\* e2e.fresh holds when the call made last was such a step.  `clean` says that
\* the call had the scenario's arguments and the engine did not fail it.
ScenarioOps == <<"create", "start", "run_command", "logs", "stop", "rm">>
NoScenario == [step |-> 0, id |-> <<>>, fresh |-> FALSE]
Track(name, id, clean) ==
    IF name = "create"
    THEN IF clean THEN [step |-> 1, id |-> id, fresh |-> TRUE]
         ELSE [e2e EXCEPT !.fresh = FALSE]
    ELSE IF e2e.step = 0 \/ id # e2e.id \/ name = "status"
    THEN [e2e EXCEPT !.fresh = FALSE]
    ELSE IF clean /\ e2e.step < Len(ScenarioOps)
                  /\ name = ScenarioOps[e2e.step + 1]
    THEN [e2e EXCEPT !.step = @ + 1, !.fresh = TRUE]
    ELSE NoScenario

\* No builder made yet, no request handled yet.
NoBuilder ==
    [phase |-> "none", name |-> "", volume |-> <<>>, ports |-> <<>>,
     value |-> BuilderNew("", <<>>)]
NoRequest ==
    [method |-> "", id |-> None, verb |-> "", command |-> NoCommand]
NoResponse == [status |-> 0, success |-> None, error |-> None]

\* The handler threads of the server, and a thread that handles no request.
Handlers == {"h1", "h2"}
Idle ==
    [phase |-> "idle", req |-> NoRequest, owner |-> 0, calls |-> <<>>,
     waits |-> ""]

Before(cs, id) ==
    [status |-> StatusOf(cs, id),
     lines |-> IF id \in DOMAIN cs THEN cs[id].lines ELSE <<>>]

Init ==
    /\ e2e = NoScenario
    /\ containers = [id \in ContainerIds |-> NewContainer]
    /\ nextId = 1
    /\ op = NoOp
    /\ pre = Before(containers, <<>>)
    /\ ret = OkUnit
    /\ calls = <<>>
    /\ logged = <<>>
    /\ builder = NoBuilder
    /\ request = NoRequest
    /\ response = NoResponse
    /\ store = "open"
    /\ handlers = [h \in Handlers |-> Idle]
    /\ made = 0
    /\ inflight = {}
    /\ uses = {}

\* The handler's outcome becomes the observable state.
Returns(o) ==
    /\ containers' = o.cs
    /\ ret' = o.ret
    /\ calls' = o.calls
    /\ logged' = o.logged

CreateWith(options) ==
    \E f \in EngineFaults, w \in WarningLists :
        /\ nextId <= MaxContainers
        \* a path that converts alone reaches the engine, and an answer alone
        \* has warnings
        /\ to_str(options.volume) = None => f = NoError
        /\ f # NoError \/ to_str(options.volume) = None => w = <<>>
        /\ LET o == create(containers, nextId, options, f, w) IN
            /\ Returns(o)
            /\ nextId' = IF o.ret.tag = "Ok" THEN nextId + 1 ELSE nextId
            /\ e2e' = Track("create", o.ret.id,
                            f = NoError /\ to_str(options.volume) # None)
        /\ op' = [NoOp EXCEPT !.name = "create", !.port = options.port,
                              !.volume = options.volume]
        /\ pre' = Before(containers, <<>>)

Create == \E options \in ProvisioningSpecs : CreateWith(options) /\ UNCHANGED others

Status ==
    \E id \in HandleIds :
        /\ Returns(status(containers, get_container(id)))
        /\ op' = [NoOp EXCEPT !.name = "status", !.id = id]
        /\ pre' = Before(containers, id)
        /\ e2e' = Track("status", id, FALSE)
        /\ UNCHANGED <<nextId, others>>

StartOn(id) ==
    \E f1 \in StartAnswers, e \in StateErrors, f2 \in EngineFaults :
        \* an accepted start alone has a recorded error and an inspect call
        /\ f1 \notin {NoError, Idempotent} => e = <<>> /\ f2 = NoError
        \* the idempotent answer is one to the start of a running container
        /\ f1 = Idempotent =>
              StatusOf(containers, id) = "running" /\ e = <<>>
        /\ Returns(start(containers, get_container(id), f1, e, f2))
        /\ op' = [NoOp EXCEPT !.name = "start", !.id = id]
        /\ pre' = Before(containers, id)
        /\ e2e' = Track("start", id, f1 = NoError /\ e = <<>> /\ f2 = NoError)
        /\ UNCHANGED nextId

Start == \E id \in HandleIds : StartOn(id) /\ UNCHANGED others

StopOn(id) ==
    \E f \in EngineFaults :
        /\ Returns(stop(containers, get_container(id), f))
        /\ op' = [NoOp EXCEPT !.name = "stop", !.id = id]
        /\ pre' = Before(containers, id)
        /\ e2e' = Track("stop", id, f = NoError)
        /\ UNCHANGED nextId

Stop == \E id \in HandleIds : StopOn(id) /\ UNCHANGED others

RunCommand ==
    \E id \in HandleIds, c \in Commands, f \in EngineFaults,
       wrote \in BOOLEAN, flushed \in BOOLEAN :
        \* an attached stream alone is written to
        /\ f # NoError => wrote /\ flushed
        /\ Returns(run_command(containers, get_container(id), c, f, wrote,
                               flushed))
        /\ op' = [NoOp EXCEPT !.name = "run_command", !.id = id,
                              !.command = c]
        /\ pre' = Before(containers, id)
        /\ e2e' = Track("run_command", id, c = OP(Alice) /\ f = NoError /\ wrote /\ flushed)
        /\ UNCHANGED <<nextId, others>>

Logs ==
    \E id \in HandleIds, f \in EngineFaults :
        /\ Returns(logs(containers, get_container(id), LogOptionsDefault, f))
        /\ op' = [NoOp EXCEPT !.name = "logs", !.id = id,
                              !.limit = LogOptionsDefault.limit]
        /\ pre' = Before(containers, id)
        /\ e2e' = Track("logs", id, f = NoError)
        /\ UNCHANGED <<nextId, others>>

RmOn(id) ==
    \E f \in EngineFaults :
        /\ Returns(rm(containers, get_container(id), f))
        /\ op' = [NoOp EXCEPT !.name = "rm", !.id = id]
        /\ pre' = Before(containers, id)
        /\ e2e' = Track("rm", id, f = NoError)
        /\ UNCHANGED nextId

Rm == \E id \in HandleIds : RmOn(id) /\ UNCHANGED others

\* The ids handed to get_container: those of the engine, the empty string and
\* a string that is no id of the engine ("z").
AnyIds == HandleIds \cup {<<>>, <<122>>}

\* A caller builds a handle from an id it knows.
GetContainer ==
    \E id \in AnyIds :
        /\ ret' = OkContainer(get_container(id))
        /\ calls' = <<>>
        /\ logged' = <<>>
        /\ op' = [NoOp EXCEPT !.name = "get_container", !.id = id]
        /\ pre' = Before(containers, id)
        /\ e2e' = [e2e EXCEPT !.fresh = FALSE]
        /\ UNCHANGED <<containers, nextId, others>>

\* The number of log lines the containers `ids` hold.
RECURSIVE LinesHeld(_, _)
LinesHeld(cs, ids) ==
    IF ids = {} THEN 0
    ELSE LET id == CHOOSE x \in ids : TRUE
         IN Len(cs[id].lines) + LinesHeld(cs, ids \ {id})

\* The workload of a running container writes one more line to its output.
Emit ==
    \E id \in ContainerIds, line \in LogLines :
        /\ containers[id].status = "running"
        /\ LinesHeld(containers, ContainerIds) < MaxLines
        /\ containers' = [containers EXCEPT ![id].lines = Append(@, line)]
        /\ UNCHANGED <<nextId, op, pre, ret, calls, logged, e2e, others>>

Next ==
    \/ Create
    \/ Status
    \/ Start
    \/ Stop
    \/ RunCommand
    \/ Logs
    \/ Rm
    \/ GetContainer
    \/ Emit

Spec == Init /\ [][Next]_vars

\* ---------------------------------------------------------------- builder
\* The largest number of port calls made on one builder.
MaxPortCalls == 2
BuilderNames == {"test", "SomeName", ""}
BuilderPorts == Ports \cup {0}

\* MCServerOptionsBuilder::new
New ==
    \E name \in BuilderNames, volume \in Volumes :
        /\ builder' = [phase |-> "building", name |-> name,
                       volume |-> volume, ports |-> <<>>,
                       value |-> BuilderNew(name, volume)]
        /\ UNCHANGED service

\* MCServerOptionsBuilder::port
WithPort ==
    \E port \in BuilderPorts :
        /\ builder.phase = "building"
        /\ Len(builder.ports) < MaxPortCalls
        /\ builder' = [builder EXCEPT !.ports = Append(@, port),
                                      !.value = BuilderPort(@, port)]
        /\ UNCHANGED service

\* MCServerOptionsBuilder::build
Build ==
    /\ builder.phase = "building"
    /\ builder' = [builder EXCEPT !.phase = "built",
                                  !.value = BuilderBuild(@)]
    /\ UNCHANGED service

NextBuilder ==
    \/ New
    \/ WithPort
    \/ Build

SpecBuilder == Init /\ [][NextBuilder]_vars

\* ----------------------------------------------------------------- server
\* A request: its method and its path /container[/{id}][/{verb}], with the
\* command a client sends along, if any.  The router looks at method and path.
Req(method, id, verb, command) ==
    [method |-> method, id |-> id, verb |-> verb, command |-> command]
Requests ==
    {Req(m, id, v, NoCommand) :
        m \in {"POST", "DELETE"}, id \in HandleIds \cup {None},
        v \in {"", "start", "stop"}}
    \cup {Req("POST", id, "command", c) : id \in HandleIds, c \in Commands}

\* router!(request, ...): the first pattern that matches, or none.
Route(req) ==
    IF req.method = "POST" /\ req.id = None /\ req.verb = "" THEN "create"
    ELSE IF req.method = "POST" /\ req.id # None /\ req.verb = "start"
    THEN "start"
    ELSE IF req.method = "POST" /\ req.id # None /\ req.verb = "stop"
    THEN "stop"
    ELSE IF req.method = "DELETE" /\ req.id # None /\ req.verb = ""
    THEN "rm"
    ELSE "not_found"

\* BasicResponse::success, BasicResponse::error
BasicSuccess(text) == [success |-> text, error |-> None]
BasicError(text) == [success |-> None, error |-> text]
\* Response::json, Response::with_status_code, Response::empty_404 and the
\* answer the HTTP library gives for a handler that panicked.
Json(body) == [status |-> 200, success |-> body.success, error |-> body.error]
with_status_code(resp, code) == [resp EXCEPT !.status = code]
empty_404 == [status |-> 404, success |-> None, error |-> None]
HandlerPanicked == [status |-> 500, success |-> None, error |-> None]

\* Mutant of Respond: a failure is answered with the success status.
Respond_AlwaysOk(payload, r) ==
    IF r.tag = "Ok" THEN Json(BasicSuccess(payload))
    ELSE Json(BasicError(to_string(r)))

\* The match on the method's result, the same in the four routes.
Respond(payload, r) ==
    IF r.tag = "Ok" THEN Json(BasicSuccess(payload))
    ELSE IF r.tag = "Err"
    THEN with_status_code(Json(BasicError(to_string(r))), 400)
    ELSE HandlerPanicked

\* MCServerOptionsBuilder::new("SomeName", <path>).build()
ServerOptions == BuilderBuild(BuilderNew("SomeName", ServerVolume))

\* (POST) (/container)
ServeCreate ==
    \E req \in Requests :
        /\ Route(req) = "create"
        /\ request' = req
        /\ CreateWith(ServerOptions)
        /\ response' = Respond(ret'.id, ret')
        /\ store' = "open"
        /\ UNCHANGED <<builder, pool>>

\* (POST) (/container/{id}/start)
ServeStart ==
    \E req \in Requests :
        /\ Route(req) = "start"
        /\ request' = req
        /\ StartOn(req.id)
        /\ response' = Respond(SuccessText, ret')
        /\ store' = "open"
        /\ UNCHANGED <<builder, pool>>

\* (POST) (/container/{id}/stop)
ServeStop ==
    \E req \in Requests :
        /\ Route(req) = "stop"
        /\ request' = req
        /\ StopOn(req.id)
        /\ response' = Respond(SuccessText, ret')
        /\ store' = "open"
        /\ UNCHANGED <<builder, pool>>

\* (DELETE) (/container/{id})
ServeRemove ==
    \E req \in Requests :
        /\ Route(req) = "rm"
        /\ request' = req
        /\ RmOn(req.id)
        /\ response' = Respond(SuccessText, ret')
        /\ store' = "open"
        /\ UNCHANGED <<builder, pool>>

\* A request answered without a lifecycle method being called.
NoMethodCalled ==
    /\ op' = NoOp
    /\ pre' = Before(containers, <<>>)
    /\ ret' = OkUnit
    /\ calls' = <<>>
    /\ logged' = <<>>
    /\ e2e' = [e2e EXCEPT !.fresh = FALSE]
    /\ UNCHANGED <<containers, nextId, builder, pool>>

\* _ => rouille::Response::empty_404()
ServeNotFound ==
    \E req \in Requests :
        /\ Route(req) = "not_found"
        /\ request' = req
        /\ response' = empty_404
        /\ store' = "open"
        /\ NoMethodCalled

\* MCService::new or MCContainerService::new panics (the database does not
\* open, the runtime is not made) before the router looks at the request.
ServePanic ==
    \E req \in Requests, cause \in {"store", "runtime"} :
        /\ request' = req
        /\ response' = HandlerPanicked
        /\ store' = IF cause = "store" THEN "unavailable" ELSE "open"
        /\ NoMethodCalled

NextServer ==
    \/ ServeCreate
    \/ ServeStart
    \/ ServeStop
    \/ ServeRemove
    \/ ServeNotFound
    \/ ServePanic

SpecServer == Init /\ [][NextServer]_vars

\* ------------------------------------------------------ concurrent requests
\* The server hands each request to one of its handler threads, and the
\* threads run the handler closure side by side.  Here a handler is followed
\* call by call: it constructs its services, and its method submits an engine
\* call through Runtime::block_on, waits until the engine has settled it, and
\* goes on.
\* Requests the server is sent in one run.
MaxRequests == 2

\* Mutant of Construct: the services are made once and shared by all requests.
Construct_Shared(n) == [mc |-> 1, cs |-> 2]

\* let mut mc_service = MCService::new(); let mut container_service =
\* MCContainerService::new(): two new service instances, each with its own
\* engine client and runtime, for the n-th request.
Construct(n) == [mc |-> 2 * n - 1, cs |-> 2 * n]

\* The service instance whose method the route of a request calls.
InstanceOf(req, n) ==
    IF Route(req) = "create" THEN Construct(n).mc ELSE Construct(n).cs

\* What a method does next: submit an engine call, or return.
SubmitCall(name) == [submit |-> name, ret |-> OkUnit]
ReturnWith(r) == [submit |-> "", ret |-> r]

\* The methods the routes call, as steps: given the answers to the engine
\* calls made so far, the next call or the result.
NextStep(route, id, answers) ==
    CASE route = "create" ->
            IF answers = <<>> THEN SubmitCall("create")
            ELSE IF ~answers[1].ok THEN ReturnWith(FailedToCreateContainer)
            ELSE ReturnWith(OkContainer(get_container(answers[1].id)))
      [] route = "start" ->
            IF answers = <<>> THEN SubmitCall("start")
            ELSE IF ~answers[1].ok
            THEN ReturnWith(FailedToStartContainer(id))
            ELSE IF Len(answers) = 1 THEN SubmitCall("inspect")
            ELSE IF ~answers[2].ok
            THEN ReturnWith(FailedToInspectContainer(id))
            ELSE ReturnWith(StartVerify(id, answers[2].state_error))
      [] route = "stop" ->
            IF answers = <<>> THEN SubmitCall("stop")
            ELSE IF ~answers[1].ok THEN ReturnWith(FailedToStopContainer(id))
            ELSE ReturnWith(OkUnit)
      [] route = "rm" ->
            IF answers = <<>> THEN SubmitCall("remove")
            ELSE IF ~answers[1].ok THEN ReturnWith(FailedToRMContainer(id))
            ELSE ReturnWith(OkUnit)

\* Mutant of block_on: the call is handed to the runtime and not waited for;
\* the method goes on as if the engine had accepted it.
block_on_Detached(h, name) ==
    [h EXCEPT !.calls = Append(@, Resp)]

\* Runtime::block_on: the calling thread waits until the call has settled.
block_on(h, name) ==
    [h EXCEPT !.phase = "blocked", !.waits = name]

\* The engine carries out a submitted call.
Perform(cs, next, c, f, e) ==
    CASE c.call = "create" ->
            LET r == EngineCreate(cs, next, f)
            IN [resp |-> r.resp, cs |-> r.cs,
                next |-> IF r.resp.ok THEN next + 1 ELSE next]
      [] c.call = "start" ->
            LET r == EngineStart(cs, c.id, f, e)
            IN [resp |-> r.resp, cs |-> r.cs, next |-> next]
      [] c.call = "inspect" ->
            [resp |-> EngineInspect(cs, c.id, f), cs |-> cs, next |-> next]
      [] c.call = "stop" ->
            LET r == EngineStop(cs, c.id, f)
            IN [resp |-> r.resp, cs |-> r.cs, next |-> next]
      [] c.call = "remove" ->
            LET r == EngineRemove(cs, c.id, TRUE, f)
            IN [resp |-> r.resp, cs |-> r.cs, next |-> next]

\* What the handler threads leave alone.
unobserved == <<op, pre, ret, calls, logged, e2e, builder>>
\* The create requests being handled.
Creating == {h \in Handlers : Route(handlers[h].req) = "create"}

\* A thread takes a request, constructs the two services and finds its route.
Handle(h) ==
    \E req \in Requests :
        /\ handlers[h].phase = "idle"
        /\ made < MaxRequests
        /\ Route(req) # "not_found"
        /\ Route(req) = "create" =>
              nextId + Cardinality(Creating) <= MaxContainers
        /\ made' = made + 1
        /\ handlers' = [handlers EXCEPT ![h] =
                            [Idle EXCEPT !.phase = "running", !.req = req,
                                         !.owner = made + 1]]
        /\ store' = "open"
        /\ UNCHANGED <<containers, nextId, request, response, inflight, uses,
                       unobserved>>

\* A thread takes a request no route matches: the services are constructed
\* and dropped unused.
HandleNotFound(h) ==
    \E req \in Requests :
        /\ handlers[h].phase = "idle"
        /\ made < MaxRequests
        /\ Route(req) = "not_found"
        /\ made' = made + 1
        /\ request' = req
        /\ response' = empty_404
        /\ store' = "open"
        /\ UNCHANGED <<containers, nextId, handlers, inflight, uses,
                       unobserved>>

\* A thread takes a request and panics constructing the services.
HandlePanic(h) ==
    \E req \in Requests, cause \in {"store", "runtime"} :
        /\ handlers[h].phase = "idle"
        /\ made < MaxRequests
        /\ made' = made + 1
        /\ request' = req
        /\ response' = HandlerPanicked
        /\ store' = IF cause = "store" THEN "unavailable" ELSE "open"
        /\ UNCHANGED <<containers, nextId, handlers, inflight, uses,
                       unobserved>>

\* The method a thread runs submits its next engine call through the runtime
\* of its service instance.
Submit(h) ==
    LET t == handlers[h]
        step == NextStep(Route(t.req), t.req.id, t.calls)
        inst == InstanceOf(t.req, t.owner)
    IN /\ t.phase = "running"
       /\ step.submit # ""
       /\ inflight' = inflight \cup
              {[inst |-> inst, owner |-> t.owner, call |-> step.submit,
                id |-> t.req.id]}
       /\ uses' = uses \cup {<<inst, t.owner>>}
       /\ handlers' = [handlers EXCEPT ![h] = block_on(t, step.submit)]
       /\ UNCHANGED <<containers, nextId, made, request, response, store,
                      unobserved>>

\* The engine settles a submitted call; the thread waiting for it goes on
\* with the answer.
Settle ==
    \E c \in inflight, f \in StartAnswers, e \in StateErrors :
        /\ c.call # "start" => f \in EngineFaults /\ e = <<>>
        /\ f \notin {NoError, Idempotent} => e = <<>>
        /\ f = Idempotent =>
              StatusOf(containers, c.id) = "running" /\ e = <<>>
        /\ LET r == Perform(containers, nextId, c, f, e) IN
            /\ containers' = r.cs
            /\ nextId' = r.next
            /\ handlers' =
                  [h \in Handlers |->
                      IF /\ handlers[h].phase = "blocked"
                         /\ handlers[h].owner = c.owner
                         /\ handlers[h].waits = c.call
                      THEN [handlers[h] EXCEPT !.phase = "running",
                                               !.waits = "",
                                               !.calls = Append(@, r.resp)]
                      ELSE handlers[h]]
        /\ inflight' = inflight \ {c}
        /\ UNCHANGED <<made, uses, request, response, store, unobserved>>

\* The method returns; the thread answers the request and drops its services.
Return(h) ==
    LET t == handlers[h]
        step == NextStep(Route(t.req), t.req.id, t.calls)
    IN /\ t.phase = "running"
       /\ step.submit = ""
       /\ request' = t.req
       /\ response' =
              Respond(IF Route(t.req) = "create" THEN step.ret.id
                      ELSE SuccessText, step.ret)
       /\ handlers' = [handlers EXCEPT ![h] = Idle]
       /\ UNCHANGED <<containers, nextId, made, inflight, uses, store,
                      unobserved>>

NextConcurrent ==
    \/ \E h \in Handlers : Handle(h)
    \/ \E h \in Handlers : HandleNotFound(h)
    \/ \E h \in Handlers : HandlePanic(h)
    \/ \E h \in Handlers : Submit(h)
    \/ Settle
    \/ \E h \in Handlers : Return(h)

SpecConcurrent == Init /\ [][NextConcurrent]_vars

\* ----------------------------------------------------------------- claims
LifecycleErrors ==
    {"FailedToCreateContainer", "FailedToStartContainer",
     "FailedToInspectContainer", "FailedToStopContainer",
     "FailedToRunCommand", "FailedToRMContainer", "ContainerError"}
\* The call made last issued exactly the engine calls named, in that order.
Issued(names) ==
    /\ Len(calls) = Len(names)
    /\ \A i \in 1..Len(names) : calls[i].call = names[i]
AllOk == \A i \in 1..Len(calls) : calls[i].resp.ok
WellFormed(bytes) == \A i \in 1..Len(bytes) : bytes[i] < 128

\* C1: when the engine accepts the start call and the inspect call that
\* follows succeeds with a non-empty state error, start returns
\* ContainerError(id, message) with the handle's id and the engine's error
\* string unchanged.
C1_StartSurfacesContainerError ==
    (/\ op.name = "start"
     /\ Issued(<<"start", "inspect">>)
     /\ AllOk
     /\ calls[2].resp.state_error # <<>>)
    => ret = ContainerError(op.id, calls[2].resp.state_error)

\* C1 witness: a start accepted by the engine whose inspected state carries
\* the engine's error.
C1_Witness ==
    /\ op.name = "start"
    /\ Issued(<<"start", "inspect">>)
    /\ AllOk
    /\ calls[2].resp.state_error = PortConflict
    /\ ret.tag = "Err"

\* C2: start returns success exactly when the engine accepted the start call,
\* the inspect call succeeded and the inspected error string is empty; in
\* every other case it returns a failure.
C2_StartSucceedsIffVerified ==
    op.name = "start" =>
        /\ ret.tag = "Ok" <=>
              (/\ Issued(<<"start", "inspect">>)
               /\ AllOk
               /\ calls[2].resp.state_error = <<>>)
        /\ ret.tag \in {"Ok", "Err"}
        /\ ret.tag = "Err" => ret.err \in LifecycleErrors /\ ret.id = op.id

\* C2 witness: a start that succeeded, and so was accepted and verified.
C2_Witness ==
    /\ op.name = "start"
    /\ ret = OkUnit
    /\ Issued(<<"start", "inspect">>)
    /\ containers[op.id].status = "running"

\* C3: once remove has succeeded on an id, every later start, stop,
\* runCommand, logs, status or remove with that id returns a failure of the
\* taxonomy that carries the id.
C3_AfterRemoveEveryOperationFails ==
    (/\ pre.status = "removed"
     /\ op.name \in {"start", "stop", "run_command", "logs", "status", "rm"})
    => /\ ret.tag = "Err"
       /\ ret.err \in LifecycleErrors
       /\ ret.id = op.id

\* C4: every lifecycle call returns a result value to its caller, whatever the
\* engine answers and whatever the input; none unwinds the calling thread.
C4_NoLifecycleCallPanics ==
    op.name \in {"create", "start", "stop", "run_command", "logs", "rm"}
    => ret.tag # "Panic"

\* C5: runCommand returns FailedToRunCommand(id, command) whenever the attach,
\* the write or the flush fails, and success only when all three succeeded.
C5_RunCommandFailsOnAnyStep ==
    op.name = "run_command" =>
        IF AllOk /\ Issued(<<"attach", "write_all", "flush">>)
        THEN ret = OkUnit
        ELSE ret = FailedToRunCommand(op.id, op.command)

\* C6: create returns either a handle with a non-empty id or
\* FailedToCreateContainer, the latter on every engine failure, for every
\* provisioning spec and every engine response.
C6_CreateReturnsHandleOrFailure ==
    op.name = "create" =>
        /\ \/ ret.tag = "Ok" /\ ret.id # <<>>
           \/ ret = FailedToCreateContainer
        /\ (\E i \in 1..Len(calls) : ~calls[i].resp.ok)
               => ret = FailedToCreateContainer

\* C7: the port mapping create sends to the engine publishes the spec's host
\* port and maps it to the fixed container port 25565.
C7_CreateMapsHostPortToFixedPort ==
    (op.name = "create" /\ Len(calls) > 0) =>
        /\ calls[1].args.host_port = op.port
        /\ calls[1].args.container_port = DEFAULT_MC_PORT
        /\ calls[1].args.protocol = "tcp"

\* The lines the container had emitted when the last call was made.
Emitted == pre.lines
LogsServed ==
    /\ op.name = "logs"
    /\ op.limit = DefaultLimit
    /\ Issued(<<"logs">>)
    /\ AllOk
    /\ Len(Emitted) < ParseNat(DefaultLimit)

Written == calls[2].args.bytes
Newlines(t) == Cardinality({i \in 1..Len(t) : t[i] = NL})

\* C9: for every username the text written for Op(username) is one line: it
\* is "/op " followed by the username and '\n', ends with '\n' and holds no
\* other newline.
C9_CommandIsOneLine ==
    (op.name = "run_command" /\ Issued(<<"attach", "write_all", "flush">>))
    => /\ Written = OpPrefix \o op.command.name \o <<NL>>
       /\ Written[Len(Written)] = NL
       /\ Newlines(Written) = 1

\* What the scenario's step made last is to give.
ScenarioStepHolds(unchanged) ==
    CASE e2e.step = 1 ->
            /\ ret.tag = "Ok"
            /\ ret.id # <<>>
            /\ ret.id = e2e.id
      [] e2e.step = 2 ->
            /\ ret = OkUnit
            /\ containers[e2e.id].status = "running"
      [] e2e.step = 3 ->
            /\ ret = OkUnit
            /\ Issued(<<"attach", "write_all", "flush">>)
            /\ Written = <<47, 111, 112, 32, 65, 108, 105, 99, 101, 10>>
      [] e2e.step = 4 ->
            /\ ret.tag = "Ok"
            /\ Len(ret.lines) = Len(calls[1].resp.lines)
            /\ \A i \in 1..Len(ret.lines) :
                IF unchanged \/ WellFormed(calls[1].resp.lines[i])
                THEN ret.lines[i] = calls[1].resp.lines[i]
                ELSE ret.lines[i] = as_string_lossy(calls[1].resp.lines[i])
      [] e2e.step = 5 ->
            /\ ret = OkUnit
            /\ containers[e2e.id].status = "stopped"
      [] e2e.step = 6 ->
            /\ ret = OkUnit
            /\ containers[e2e.id].status = "removed"
      [] OTHER -> TRUE

C11_SecondStartReportsEngine ==
    (op.name = "start" /\ pre.status = "running") =>
        /\ ret.tag # "Panic"
        /\ Len(calls) >= 1
        /\ \A i \in 1..Len(calls) : calls[i].call \in {"start", "inspect"}
        /\ IF ~calls[1].resp.ok
           THEN ret = FailedToStartContainer(op.id) /\ Issued(<<"start">>)
           ELSE /\ Issued(<<"start", "inspect">>)
                /\ ret = IF ~calls[2].resp.ok
                         THEN FailedToInspectContainer(op.id)
                         ELSE IF calls[2].resp.state_error # <<>>
                         THEN ContainerError(op.id, calls[2].resp.state_error)
                         ELSE OkUnit
        /\ StatusOf(containers, op.id) = "running"

\* C11 witness: the engine rejects the second start as already started.
C11_Witness ==
    /\ op.name = "start"
    /\ pre.status = "running"
    /\ Issued(<<"start">>)
    /\ calls[1].resp.error = Fault(304)
    /\ ret = FailedToStartContainer(op.id)

\* C12: stop returns FailedToStopContainer(id) on every failure of its stop
\* call and remove returns FailedToRMContainer(id) on every failure of its
\* forced remove call, with the handle's id; each returns success exactly when
\* its one engine call succeeded.
C12_StopAndRemoveMapTheirOwnFailure ==
    /\ op.name = "stop" =>
        /\ Issued(<<"stop">>)
        /\ calls[1].id = op.id
        /\ ret = IF calls[1].resp.ok THEN OkUnit
                 ELSE FailedToStopContainer(op.id)
    /\ op.name = "rm" =>
        /\ Issued(<<"remove">>)
        /\ calls[1].id = op.id
        /\ calls[1].args.force
        /\ ret = IF calls[1].resp.ok THEN OkUnit
                 ELSE FailedToRMContainer(op.id)

\* C12 witness: a forced remove the engine failed, reported as
\* FailedToRMContainer with the handle's id.
C12_Witness ==
    /\ op.name = "rm"
    /\ pre.status = "running"
    /\ ~calls[1].resp.ok
    /\ ret = FailedToRMContainer(op.id)
    /\ ret # FailedToStopContainer(op.id)

\* C13: get_container returns a handle whose id is its argument, for every
\* string, and makes no engine call; applied to the id of the handle create
\* just returned it gives a handle equal to that one.
C13_GetContainerRoundTrip ==
    /\ [](op.name = "get_container" =>
            /\ ret = OkContainer([id |-> op.id])
            /\ calls = <<>>
            /\ StatusOf(containers, op.id) = pre.status)
    /\ [][(/\ op.name = "create"
           /\ ret.tag = "Ok"
           /\ op'.name = "get_container"
           /\ op'.id = ret.id) => ret' = ret]_vars

\* C13 witness: get_container applied to the id the engine assigned at create.
C13_Witness ==
    /\ op.name = "get_container"
    /\ op.id = IdOf(1)
    /\ Exists(containers, op.id)
    /\ ret.id = IdOf(1)

\* C14: a spec built without a port call has host port 25565; after port
\* calls the built spec's host port is the argument of the last of them; the
\* name and the volume path of the builder and of the built spec are the
\* arguments given to new, whatever port calls were made.
C14_BuiltSpecKeepsLastPort ==
    /\ builder.phase = "built" =>
          builder.value.port =
              IF builder.ports = <<>> THEN 25565
              ELSE builder.ports[Len(builder.ports)]
    /\ builder.phase # "none" =>
          /\ builder.value.name = builder.name
          /\ builder.value.volume = builder.volume

\* C14 witness: a spec built after two port calls with different arguments.
C14_Witness ==
    /\ builder.phase = "built"
    /\ Len(builder.ports) = 2
    /\ builder.ports[1] # builder.ports[2]
    /\ builder.value.port = builder.ports[2]
    /\ builder.value.port # DEFAULT_MC_PORT

\* C15: status returns success for every handle, whatever the state of its
\* container in the engine, issues no engine call and logs nothing, and the
\* step leaves the engine's containers and its id counter as they were.
C15_StatusIsAStub ==
    /\ [](op.name = "status" =>
            /\ ret = OkUnit
            /\ calls = <<>>
            /\ logged = <<>>
            /\ StatusOf(containers, op.id) = pre.status)
    /\ [][Status => UNCHANGED <<containers, nextId>>]_vars

\* C15 witness: status succeeded on the handle of a container that had been
\* removed.
C15_Witness ==
    /\ op.name = "status"
    /\ pre.status = "removed"
    /\ ret = OkUnit
    /\ calls = <<>>

\* The operation of the API a request asks for: the four the router knows and
\* run-command, named after the same pattern.
Operation(req) ==
    IF req.method = "POST" /\ req.id # None /\ req.verb = "command"
    THEN "run_command"
    ELSE IF Route(req) = "not_found" THEN "none"
    ELSE Route(req)

\* C16: a request for create-container, start-container(id),
\* stop-container(id), run-command(id, command) or remove-container(id) that
\* the router gets to see reaches the lifecycle method of that operation and
\* is answered with that method's result, never as an unknown route.
C16_AllFiveOperationsRouted ==
    (Operation(request) # "none" /\ response # HandlerPanicked) =>
        /\ response.status # 404
        /\ op.name = Operation(request)
        /\ response =
              Respond(IF op.name = "create" THEN ret.id ELSE SuccessText, ret)

\* A request was routed: the handler of its route called its method.
Routed == request # NoRequest /\ op.name = Route(request)

\* C17: for every routed request the response has status 400 and as error
\* the string rendering of the returned MCError exactly when the method failed;
\* otherwise it has status 200 and as success the created id (create) or
\* "success" (start, stop, remove).  No response has both success and error.
C17_ResponseMirrorsResult ==
    /\ Routed =>
          /\ ret.tag \in {"Ok", "Err"}
          /\ response.status = 400 <=> ret.tag = "Err"
          /\ ret.tag = "Err" =>
                /\ response.error = to_string(ret)
                /\ response.success = None
          /\ ret.tag = "Ok" =>
                /\ response.status = 200
                /\ response.error = None
                /\ response.success =
                      IF op.name = "create" THEN ret.id ELSE SuccessText
    /\ ~(response.success # None /\ response.error # None)

\* C17 witness: a start request whose start call the engine rejected, answered
\* with 400 and "failed to start container <id>".
C17_Witness ==
    /\ Routed
    /\ op.name = "start"
    /\ ret = FailedToStartContainer(request.id)
    /\ response.status = 400
    /\ response.error = FailedToStartText \o IdOf(1)
    /\ response.success = None

\* C18: within one start the inspect call is issued only once the start call
\* has completed with success.  A failed start call gives
\* FailedToStartContainer(id) and no inspect call; an accepted start call
\* followed by a failed inspect call gives FailedToInspectContainer(id).  The
\* two calls do not overlap: the inspect call is the second and last call and
\* reads the state the completed start call left.
C18_InspectFollowsCompletedStart ==
    op.name = "start" =>
        /\ Len(calls) \in {1, 2}
        /\ calls[1].call = "start"
        /\ ~calls[1].resp.ok =>
              Len(calls) = 1 /\ ret = FailedToStartContainer(op.id)
        /\ calls[1].resp.ok =>
              /\ Len(calls) = 2
              /\ calls[2].call = "inspect"
              /\ ~calls[2].resp.ok => ret = FailedToInspectContainer(op.id)
              /\ calls[2].resp.ok =>
                    calls[2].resp.state_error = containers[op.id].error

\* C18 witness: a start whose start call was accepted and whose inspect call
\* failed.
C18_Witness ==
    /\ op.name = "start"
    /\ Issued(<<"start", "inspect">>)
    /\ calls[1].resp.ok
    /\ ~calls[2].resp.ok
    /\ ret = FailedToInspectContainer(op.id)

\* The kinds of engine call each lifecycle method may issue.
Allowed ==
    [create |-> {"create"}, start |-> {"start", "inspect"},
     stop |-> {"stop"}, run_command |-> {"attach"}, logs |-> {"logs"},
     rm |-> {"remove"}]
IsEngineCall(c) ==
    c.call \in {"create", "start", "inspect", "stop", "attach", "logs",
                "remove"}
\* The engine calls among the calls of the method called last (writes to an
\* attached stream are no engine calls).
EngineCalls == SelectSeq(calls, IsEngineCall)

\* C19: no lifecycle method retries.  One invocation issues engine calls of
\* its own kinds only and at most one of each kind; a failed engine call is
\* the last one issued, and the method then returns an error.
C19_NoRetryOneError ==
    op.name \in DOMAIN Allowed =>
        /\ \A i \in 1..Len(EngineCalls) :
              /\ EngineCalls[i].call \in Allowed[op.name]
              /\ \A j \in 1..Len(EngineCalls) :
                    EngineCalls[i].call = EngineCalls[j].call => i = j
        /\ \A i \in 1..Len(EngineCalls) :
              ~EngineCalls[i].resp.ok =>
                  /\ i = Len(EngineCalls)
                  /\ ret.tag = "Err"
                  /\ ret.err \in LifecycleErrors

\* C20: whenever create, start, stop, run_command or rm returns an MCError
\* because an engine call failed, a record carrying that call's failure was
\* logged (through the log macros or on standard error) before it returned.
C20_EngineFailureIsLogged ==
    (/\ op.name \in {"create", "start", "stop", "run_command", "rm"}
     /\ ret.tag = "Err")
    => \A i \in 1..Len(EngineCalls) :
          ~EngineCalls[i].resp.ok =>
              \E k \in 1..Len(logged) :
                  logged[k].error = EngineCalls[i].resp.error

\* C24: a failing lifecycle method issues no compensating engine call.  A
\* start that fails after the engine accepted the start call has issued the
\* start and the inspect call and nothing else, and its container still exists,
\* running if the engine recorded no error and stopped otherwise; a failed
\* stop or rm has issued its one call and leaves the container in the status
\* it had.  An existing container ceases to exist only by an rm of the caller
\* that succeeds, and a running one ceases to run only by a stop or an rm of
\* the caller that succeeds.
C24_NoCompensatingCall ==
    /\ [](/\ (/\ op.name = "start"
              /\ ret.tag = "Err"
              /\ ret.err \in {"FailedToInspectContainer", "ContainerError"})
             => /\ Issued(<<"start", "inspect">>)
                /\ calls[1].resp.ok
                /\ Exists(containers, op.id)
                /\ containers[op.id].status =
                      IF containers[op.id].error = <<>> THEN "running"
                      ELSE "stopped"
          /\ (op.name = "stop" /\ ret.tag = "Err")
             => Issued(<<"stop">>) /\ StatusOf(containers, op.id) = pre.status
          /\ (op.name = "rm" /\ ret.tag = "Err")
             => Issued(<<"remove">>)
                /\ StatusOf(containers, op.id) = pre.status)
    /\ [][\A id \in ContainerIds :
            /\ (Exists(containers, id) /\ ~Exists(containers', id))
               => op' = [NoOp EXCEPT !.name = "rm", !.id = id] /\ ret' = OkUnit
            /\ (/\ StatusOf(containers, id) = "running"
                /\ StatusOf(containers', id) # "running")
               => /\ op'.name \in {"stop", "rm"}
                  /\ op'.id = id
                  /\ ret' = OkUnit]_vars

\* C24 witness: a start returned ContainerError after the engine accepted it,
\* and the container is still in the engine, stopped with its error.
C24_Witness ==
    /\ op.name = "start"
    /\ ret = ContainerError(op.id, PortConflict)
    /\ Issued(<<"start", "inspect">>)
    /\ Exists(containers, op.id)
    /\ containers[op.id].status = "stopped"
    /\ containers[op.id].error = PortConflict

\* C23: an unavailable store prevents no lifecycle operation: a request for
\* an operation the router knows, handled while the store does not open, still
\* reaches its method and is answered with that method's result, as it is when
\* the store opens.
C23_StoreDoesNotMatter ==
    (/\ request # NoRequest
     /\ Route(request) # "not_found"
     /\ store = "unavailable")
    => /\ Routed
       /\ response =
             Respond(IF op.name = "create" THEN ret.id ELSE SuccessText, ret)

\* The submissions in flight that the thread t waits for.
AwaitedBy(t) ==
    {c \in inflight : c.owner = t.owner /\ c.call = t.waits}

\* C21: at most one engine submission of a service instance is in flight at
\* any time.  The thread that submitted a call is blocked for as long as the
\* call is in flight, and a blocked thread waits for exactly one call, so a
\* method submits its next call or returns only once the last has settled.
C21_OneSubmissionInFlight ==
    /\ \A a \in inflight, b \in inflight : a.inst = b.inst => a = b
    /\ \A c \in inflight :
          \E h \in Handlers :
              handlers[h].phase = "blocked" /\ c \in AwaitedBy(handlers[h])
    /\ \A h \in Handlers :
          handlers[h].phase = "blocked" =>
              Cardinality(AwaitedBy(handlers[h])) = 1

\* C21 witness: the inspect call of a start is in flight, the start call
\* before it settled and answered.
C21_Witness ==
    \E h \in Handlers :
        /\ handlers[h].phase = "blocked"
        /\ handlers[h].waits = "inspect"
        /\ Len(handlers[h].calls) = 1
        /\ handlers[h].calls[1].ok
        /\ \E c \in inflight :
              c.call = "inspect" /\ c.owner = handlers[h].owner

\* The two service instances constructed for the n-th request.
InstancesOf(n) == {Construct(n).mc, Construct(n).cs}

\* C22: every request is served by service instances constructed for it
\* alone.  No instance submits calls for two requests, the instances of two
\* requests being handled are different, and a call in flight was submitted
\* through an instance of the request it belongs to.
C22_InstancesPerRequest ==
    /\ \A u \in uses, v \in uses : u[1] = v[1] => u[2] = v[2]
    /\ \A g \in Handlers, h \in Handlers :
          (/\ g # h
           /\ handlers[g].phase # "idle"
           /\ handlers[h].phase # "idle")
          => InstancesOf(handlers[g].owner)
                \cap InstancesOf(handlers[h].owner) = {}
    /\ \A c \in inflight : c.inst \in InstancesOf(c.owner)

\* C22 witness: two requests are handled at the same time and each has a
\* call in flight, submitted through its own instance.
C22_Witness ==
    /\ \A h \in Handlers : handlers[h].phase = "blocked"
    /\ Cardinality(inflight) = 2
    /\ Cardinality({c.inst : c \in inflight}) = 2
    /\ Cardinality(uses) = 2

====
